---- MODULE Spec2Model ----
(***************************************************************************)
(* Download-and-stream lifecycle of the YouTube downloader proxy.          *)
(*                                                                         *)
(* Two deployments share the download handler: the long-running express    *)
(* server (server/server.js), which also owns the periodic sweep of the    *)
(* scratch directory, and the serverless download function, which has      *)
(* neither the sweep timer nor a 'close' listener.                         *)
(*                                                                         *)
(* File names are records instead of strings:                              *)
(*   "<time>_<tok>.<ext>"  is [frag |-> FALSE, of |-> 0, time, tok, ext]   *)
(*   "--Frag..."           is [frag |-> TRUE, of |-> s, ...], where "of"   *)
(*                         records the session the engine writes it for.   *)
(* The directory maps each entry to its age, Date.now() - stats.mtimeMs,    *)
(* in milliseconds; ages stop growing once they are past the retention    *)
(* threshold, since nothing in the program tells such ages apart.          *)
(*                                                                         *)
(* A run studies the requests of one route: the download route (req), or   *)
(* the video-info or formats route (vreq), whose serverless video-info      *)
(* handler reaches the engine through the lazily initialised getYtDlp.     *)
(***************************************************************************)
EXTENDS Integers, Sequences, FiniteSets, TLC

\* ---------------------------------------------------------------- bounds
MaxSessions == 2
MaxWrites == 1
MaxInfoRequests == 2

\* ------------------------------------------------------ program constants
RetentionMs == 3600000

Sessions == 1..MaxSessions

\* time advances in steps of the retention threshold, so that an entry is
\* seen at exactly the threshold and then past it
TickMs == RetentionMs
AgeCap == RetentionMs + TickMs

\* Date.now() values that allocations see: two consecutive milliseconds
Stamps == {RetentionMs, RetentionMs + 1}

\* Math.random().toString(36).substring(7): a base-36 token of varying length
Tokens == {<<"a">>, <<"a", "b">>}

\* req.query.format as the client sent it; Absent is a request without it
Absent == "undefined"
QueryFormats == {Absent, "mp4", "mp3", "webm"}

VARIABLES deployment, downloadsDir, sweepPc, sweepFiles, req,
          route, accessor, lib, vreq

\* the route under study, the getYtDlp variant, its module-level state and
\* the requests of the video-info / formats routes
infoVars == <<route, accessor, lib, vreq>>

vars == <<deployment, downloadsDir, sweepPc, sweepFiles, req, route, accessor, lib, vreq>>

\* ------------------------------------------------------------ file names
NoFile == [frag |-> FALSE, of |-> 0, time |-> -1, tok |-> <<>>, ext |-> "none"]

FragFile(s) == [frag |-> TRUE, of |-> s, time |-> 0, tok |-> <<>>, ext |-> "Frag"]

WithExt(n, e) == [n EXCEPT !.ext = e]

IsPrefix(p, q) == Len(p) <= Len(q) /\ SubSeq(q, 1, Len(p)) = p

\* file.startsWith('--')
StartsWithMarker(n) == n.frag

\* tempFileName.split('.')[0]
Stem(n) == [time |-> n.time, tok |-> n.tok]

\* file.startsWith(tempFileName.split('.')[0])
StartsWithStem(n, stem) ==
    /\ ~n.frag
    /\ n.time = stem.time
    /\ IsPrefix(stem.tok, n.tok)

\* f.endsWith('.m4a') || f.endsWith('.opus') || f.endsWith('.webm')
AcceptedAudioExt(n) == n.ext \in {"m4a", "opus", "webm"}

\* ------------------------------------------------------ scratch directory
\* downloadsDir maps each existing entry to its age
EmptyDir == [n \in {} |-> 0]

Remove(d, S) == [n \in DOMAIN d \ S |-> d[n]]

Put(d, n, t) == [x \in DOMAIN d \cup {n} |-> IF x = n THEN t ELSE d[x]]

\* ------------------------------------------------------- format handling
\* const { url, format = 'mp4' } = req.query
Format(q) == IF q = Absent THEN "mp4" ELSE q

EngineSelector(format) ==
    IF format = "mp3"
    THEN "bestaudio[ext=m4a]/bestaudio[ext=opus]/bestaudio[ext=webm]/bestaudio"
    ELSE "best[ext=mp4]/best"

ContentType(format) == IF format = "mp3" THEN "audio/mpeg" ELSE "video/mp4"

TempExt(format) == IF format = "mp3" THEN "m4a" ELSE "mp4"

\* let fileName = `${videoTitle}.${format}`
InitialFileName(format) == [base |-> "videoTitle", ext |-> format]

\* downloadedFile.replace(/\.(m4a|opus|webm)$/, '.mp3')
RenamedFileName(downloadedFile) == [base |-> "tempStem", ext |-> "mp3"]

NoName == [base |-> "none", ext |-> "none"]

\* containers the engine can write for a selector; "ogg" stands for any
\* audio container outside the three the handler looks for (the trailing
\* /bestaudio alternative of the mp3 selector)
EngineExts(format) ==
    IF format = "mp3" THEN {"m4a", "opus", "webm", "ogg"} ELSE {"mp4"}

\* ------------------------------------------------------------ validation
\* a url as the pieces the regex of validateYouTubeURL looks at
MissingUrl == [scheme |-> "", www |-> FALSE, host |-> "", path |-> ""]

Urls ==
    { MissingUrl,
      [scheme |-> "", www |-> FALSE, host |-> "not-a-url", path |-> ""],
      [scheme |-> "https://", www |-> TRUE, host |-> "youtube.com", path |-> "watch?v=x"],
      [scheme |-> "", www |-> FALSE, host |-> "youtu.be", path |-> ""],
      [scheme |-> "ftp://", www |-> FALSE, host |-> "youtube.com", path |-> "x"] }

\* /^(https?:\/\/)?(www\.)?(youtube\.com|youtu\.be)\/.+/
validateYouTubeURL(url) ==
    /\ url.scheme \in {"", "http://", "https://"}
    /\ url.host \in {"youtube.com", "youtu.be"}
    /\ url.path # ""

\* a handler that only asks for the url to be present
UrlPresent(url) == url # MissingUrl

\* if (!url) ... if (!validateYouTubeURL(url)) ...
UrlAccepted(url) == url # MissingUrl /\ validateYouTubeURL(url)

\* ------------------------------------------------------------- sessions
NewRequest ==
    [pc |-> "idle", closedAt |-> "none", url |-> MissingUrl, query |-> Absent,
     tempFileName |-> NoFile, actualFilePath |-> NoFile,
     fileName |-> NoName, contentType |-> "none", selector |-> "none",
     ytdlp |-> "idle", writes |-> 0, fileStream |-> "none",
     headersSent |-> FALSE, resp |-> <<>>, failure |-> "none"]

\* ------------------------------------------------------------- responses
\* a handler that forgets the headersSent test
ErrorResponseAlways(headersSent) == TRUE

\* if (!res.headersSent) { res.status(500).json(...) }
ErrorResponseAllowed(headersSent) == ~headersSent

WriteError(r) ==
    [r EXCEPT
       !.failure = IF r.headersSent THEN "late" ELSE "early",
       !.resp = IF ErrorResponseAllowed(r.headersSent) THEN Append(@, "500") ELSE @,
       !.headersSent = TRUE]

\* the first chunk piped into res commits status 200 and the headers
WriteMedia(r) ==
    [r EXCEPT
       !.resp = IF r.headersSent THEN @ ELSE Append(@, "media"),
       !.headersSent = TRUE]

\* ---------------------------------------------------------------- cleanup
\* file.startsWith('--') || file.startsWith(tempFileName.split('.')[0])
CleanupMatches(file, tempFileName) ==
    StartsWithMarker(file) \/ StartsWithStem(file, Stem(tempFileName))

\* fs.remove(actualFilePath) and the readdirSync / forEach pass that the
\* 'end' and the 'close' handlers share
SessionCleanup(d, r) ==
    Remove(d, {r.actualFilePath}
              \cup {file \in DOMAIN d : CleanupMatches(file, r.tempFileName)})

\* a cleanup that lets the failure of removing a missing path escape
CleanupThrowsOnMissing(d, r) == r.actualFilePath \notin DOMAIN d

\* fs.remove(...).catch(() => {}) and try { ... } catch (err) { }: nothing
\* that the cleanup does reaches the handler as an error
CleanupThrows(d, r) == FALSE

\* the session as the cleanup of the 'end' or 'close' handler leaves it
AfterCleanup(d, r, after) == IF CleanupThrows(d, r) THEN WriteError(after) ELSE after

\* the 'error' handler removes the main file only
ErrorCleanup(d, r) == Remove(d, {r.actualFilePath})

\* a sweep that forgets the age test and removes fragments only
SweepFragmentsOnly(file, age) == StartsWithMarker(file)

\* age > 3600000, or the fragment marker
SweepQualifies(file, age) ==
    StartsWithMarker(file) \/ age > RetentionMs

\* only server.js installs the sweep timer and the req 'close' listener
HasSweep(dep) == dep = "server"

HasCloseListener(dep) == dep = "server"

JsIdle == sweepPc = "idle"

Set(s, r) == req' = [req EXCEPT ![s] = r] /\ UNCHANGED infoVars

\* getYtDlp before its first call: let YtDlp; let ytdlp = null. "verified"
\* records that an installation check or a binary download has succeeded
NewLib == [YtDlp |-> FALSE, ytdlp |-> FALSE, verified |-> FALSE]

NewInfoRequest ==
    [pc |-> "idle", url |-> MissingUrl, init |-> "none", engine |-> "idle",
     timer |-> "none", resp |-> <<>>]

InfoRequests == 1..MaxInfoRequests

\* the serverless video-info handler exists in two variants that differ in
\* getYtDlp: one logs an initialisation failure and goes on, one throws it
Accessors(dep, rt) ==
    IF dep = "serverless" /\ rt = "video-info" THEN {"lenient", "strict"} ELSE {"none"}

\* after startup: an empty scratch directory and one request slot
Init ==
    /\ deployment \in {"server", "serverless"}
    /\ route \in {"download", "video-info", "formats"}
    /\ accessor \in Accessors(deployment, route)
    /\ lib = NewLib
    /\ vreq = [i \in InfoRequests |-> NewInfoRequest]
    /\ downloadsDir = EmptyDir
    /\ sweepPc = "idle"
    /\ sweepFiles = {}
    /\ req = [s \in {1} |-> NewRequest]

\* the server, with MaxSessions request slots
InitConcurrent ==
    /\ deployment = "server"
    /\ route = "download"
    /\ accessor = "none"
    /\ lib = NewLib
    /\ vreq = [i \in InfoRequests |-> NewInfoRequest]
    /\ downloadsDir = EmptyDir
    /\ sweepPc = "idle"
    /\ sweepFiles = {}
    /\ req = [s \in Sessions |-> NewRequest]

\* ---------------------------------------------------------------- actions
\* a GET /api/download arrives; the handler runs up to `await getInfoAsync`
Request(s) ==
    /\ route = "download"
    /\ JsIdle
    /\ req[s].pc = "idle"
    /\ \A t \in DOMAIN req : t < s => req[t].pc # "idle"
    /\ \E url \in Urls, q \in QueryFormats :
         IF UrlAccepted(url)
         THEN Set(s, [req[s] EXCEPT !.pc = "info", !.url = url, !.query = q])
         ELSE Set(s, [req[s] EXCEPT !.pc = "done", !.url = url,
                                    !.resp = <<"400">>, !.headersSent = TRUE])
    /\ UNCHANGED <<deployment, downloadsDir, sweepPc, sweepFiles>>

\* const info = await ytdlp.getInfoAsync(url): the download handlers race
\* the call against no timer
DownloadInfoTimer(r) == "none"

\* getInfoAsync resolved: headers are set, the temp path is allocated and
\* downloadAsync is called
InfoResolve(s) ==
    /\ JsIdle
    /\ req[s].pc = "info"
    /\ \E time \in Stamps, tok \in Tokens :
         LET format == Format(req[s].query) IN
         Set(s, [req[s] EXCEPT
                   !.pc = "downloading",
                   !.fileName = InitialFileName(format),
                   !.contentType = ContentType(format),
                   !.selector = EngineSelector(format),
                   !.tempFileName = [frag |-> FALSE, of |-> 0, time |-> time,
                                     tok |-> tok, ext |-> TempExt(format)],
                   !.ytdlp = "running"])
    /\ UNCHANGED <<deployment, downloadsDir, sweepPc, sweepFiles>>

\* getInfoAsync rejected: the catch block
InfoReject(s) ==
    /\ JsIdle
    /\ req[s].pc = "info"
    /\ Set(s, [WriteError(req[s]) EXCEPT !.pc = "done"])
    /\ UNCHANGED <<deployment, downloadsDir, sweepPc, sweepFiles>>

\* the engine (another process) writes its partial file, a fragment file
\* or both
EngineWrite(s) ==
    /\ req[s].ytdlp = "running"
    /\ req[s].writes < MaxWrites
    /\ \E part \in BOOLEAN, frag \in BOOLEAN :
         /\ part \/ frag
         /\ downloadsDir' =
              [f \in DOMAIN downloadsDir
                      \cup (IF part THEN {WithExt(req[s].tempFileName, "part")} ELSE {})
                      \cup (IF frag THEN {FragFile(s)} ELSE {})
                 |-> IF \/ part /\ f = WithExt(req[s].tempFileName, "part")
                        \/ frag /\ f = FragFile(s)
                     THEN 0 ELSE downloadsDir[f]]
    /\ Set(s, [req[s] EXCEPT !.writes = @ + 1])
    /\ UNCHANGED <<deployment, sweepPc, sweepFiles>>

\* the engine finishes: the partial file becomes the output file, in the
\* container the engine chose; its own fragments are merged away or left
EngineFinish(s) ==
    /\ req[s].ytdlp = "running"
    /\ \E ext \in EngineExts(Format(req[s].query)), leave \in BOOLEAN :
         downloadsDir' =
           Put(Remove(downloadsDir,
                      {WithExt(req[s].tempFileName, "part")}
                        \cup (IF leave THEN {} ELSE {FragFile(s)})),
               WithExt(req[s].tempFileName, ext), 0)
    /\ Set(s, [req[s] EXCEPT !.ytdlp = "ok", !.writes = 0])
    /\ UNCHANGED <<deployment, sweepPc, sweepFiles>>

\* the engine fails; whatever it wrote stays behind
EngineFail(s) ==
    /\ req[s].ytdlp = "running"
    /\ Set(s, [req[s] EXCEPT !.ytdlp = "failed", !.writes = 0])
    /\ UNCHANGED <<deployment, downloadsDir, sweepPc, sweepFiles>>

\* files.find(f => f.startsWith(stem) && accepted extension): readdirSync
\* fixes no order, so any matching entry can be the first
DownloadedFiles(d, tempFileName) ==
    {f \in DOMAIN d : StartsWithStem(f, Stem(tempFileName)) /\ AcceptedAudioExt(f)}

\* a handler that does not wait for the download to finish
DownloadStarted(r) == r.ytdlp \in {"running", "ok"}

\* await ytdlp.downloadAsync(url, downloadOptions) has returned
DownloadAwaited(r) == r.ytdlp = "ok"

\* downloadAsync resolved: locate the file, open the read stream, pipe it
\* and register the handlers
DownloadResolve(s) ==
    /\ JsIdle
    /\ req[s].pc = "downloading"
    /\ DownloadAwaited(req[s])
    /\ LET r == req[s]
           found == IF Format(r.query) = "mp3"
                    THEN DownloadedFiles(downloadsDir, r.tempFileName)
                    ELSE {}
       IN  IF found = {}
           THEN Set(s, [r EXCEPT !.pc = "streaming",
                                 !.actualFilePath = r.tempFileName,
                                 !.fileStream = "opening"])
           ELSE \E downloadedFile \in found :
                  Set(s, [r EXCEPT !.pc = "streaming",
                                   !.actualFilePath = downloadedFile,
                                   !.fileName = RenamedFileName(downloadedFile),
                                   !.fileStream = "opening"])
    /\ UNCHANGED <<deployment, downloadsDir, sweepPc, sweepFiles>>

\* downloadAsync rejected: the catch block
DownloadReject(s) ==
    /\ JsIdle
    /\ req[s].pc = "downloading"
    /\ req[s].ytdlp = "failed"
    /\ Set(s, [WriteError(req[s]) EXCEPT !.pc = "done"])
    /\ UNCHANGED <<deployment, downloadsDir, sweepPc, sweepFiles>>

\* the read stream opens its file
StreamOpen(s) ==
    /\ JsIdle
    /\ req[s].fileStream = "opening"
    /\ req[s].actualFilePath \in DOMAIN downloadsDir
    /\ Set(s, [req[s] EXCEPT !.fileStream = "open"])
    /\ UNCHANGED <<deployment, downloadsDir, sweepPc, sweepFiles>>

\* a chunk is piped into the response
StreamData(s) ==
    /\ JsIdle
    /\ req[s].fileStream = "open"
    /\ req[s].closedAt = "none"
    /\ ~req[s].headersSent
    /\ Set(s, WriteMedia(req[s]))
    /\ UNCHANGED <<deployment, downloadsDir, sweepPc, sweepFiles>>

\* fileStream 'end': pipe ends the response, the handler cleans up
StreamEnd(s) ==
    /\ JsIdle
    /\ req[s].fileStream = "open"
    /\ req[s].closedAt = "none" \/ ~req[s].headersSent
    /\ Set(s, AfterCleanup(downloadsDir, req[s],
                [(IF req[s].closedAt = "none" THEN WriteMedia(req[s]) ELSE req[s])
                   EXCEPT !.pc = "finished", !.fileStream = "ended"]))
    /\ downloadsDir' = SessionCleanup(downloadsDir, req[s])
    /\ UNCHANGED <<deployment, sweepPc, sweepFiles>>

\* fileStream 'error' (ENOENT on open, or a read error later)
StreamError(s) ==
    /\ JsIdle
    /\ req[s].fileStream \in {"opening", "open"}
    /\ Set(s, [WriteError(req[s]) EXCEPT !.pc = "finished", !.fileStream = "errored"])
    /\ downloadsDir' = ErrorCleanup(downloadsDir, req[s])
    /\ UNCHANGED <<deployment, sweepPc, sweepFiles>>

\* the connection closes; req 'close' runs the listener if one is registered
ClientClose(s) ==
    /\ JsIdle
    /\ req[s].closedAt = "none"
    /\ req[s].pc \in {"info", "downloading", "streaming", "finished"}
    /\ LET phase == IF req[s].pc \in {"info", "downloading"} THEN "early" ELSE req[s].pc IN
       IF HasCloseListener(deployment) /\ req[s].pc \in {"streaming", "finished"}
       THEN /\ Set(s, AfterCleanup(downloadsDir, req[s],
                       [req[s] EXCEPT
                          !.closedAt = phase,
                          !.pc = "finished",
                          !.fileStream = IF @ \in {"opening", "open"}
                                         THEN "destroyed" ELSE @]))
            /\ downloadsDir' = SessionCleanup(downloadsDir, req[s])
       ELSE /\ Set(s, [req[s] EXCEPT !.closedAt = phase])
            /\ UNCHANGED downloadsDir
    /\ UNCHANGED <<deployment, sweepPc, sweepFiles>>

\* time passes
Older(age) == IF age + TickMs > AgeCap THEN AgeCap ELSE age + TickMs

Tick ==
    /\ \E f \in DOMAIN downloadsDir : downloadsDir[f] < AgeCap
    /\ downloadsDir' = [f \in DOMAIN downloadsDir |-> Older(downloadsDir[f])]
    /\ UNCHANGED <<deployment, sweepPc, sweepFiles, req>>
    /\ UNCHANGED infoVars

\* the interval callback starts: fs.readdirSync(downloadsDir)
SweepList ==
    /\ route = "download"
    /\ HasSweep(deployment)
    /\ sweepPc = "idle"
    /\ sweepPc' = "iter"
    /\ sweepFiles' = DOMAIN downloadsDir
    /\ UNCHANGED <<deployment, downloadsDir, req>>
    /\ UNCHANGED infoVars

\* files.forEach(...): statSync on an entry that is gone throws out of the
\* loop into the catch, so the entries after it are never looked at
SweepRest ==
    /\ sweepPc = "iter"
    /\ LET gone == {f \in sweepFiles : ~StartsWithMarker(f) /\ f \notin DOMAIN downloadsDir}
           present == sweepFiles \ gone
       IN  \E examined \in SUBSET present :
             /\ gone = {} => examined = present
             /\ downloadsDir' =
                  Remove(downloadsDir,
                         {f \in examined \cap DOMAIN downloadsDir :
                            SweepQualifies(f, downloadsDir[f])}
                         \cup {f \in examined : StartsWithMarker(f)})
    /\ sweepPc' = "idle"
    /\ sweepFiles' = {}
    /\ UNCHANGED <<deployment, req>>
    /\ UNCHANGED infoVars

\* what the handlers and the engine do
Handlers ==
    \/ \E s \in DOMAIN req : Request(s)
    \/ \E s \in DOMAIN req : InfoResolve(s)
    \/ \E s \in DOMAIN req : InfoReject(s)
    \/ \E s \in DOMAIN req : EngineWrite(s)
    \/ \E s \in DOMAIN req : EngineFinish(s)
    \/ \E s \in DOMAIN req : EngineFail(s)
    \/ \E s \in DOMAIN req : DownloadResolve(s)
    \/ \E s \in DOMAIN req : DownloadReject(s)
    \/ \E s \in DOMAIN req : StreamOpen(s)
    \/ \E s \in DOMAIN req : StreamData(s)
    \/ \E s \in DOMAIN req : StreamEnd(s)
    \/ \E s \in DOMAIN req : StreamError(s)
    \/ \E s \in DOMAIN req : ClientClose(s)

\* ------------------------------------------- video-info and formats routes

\* error messages, as the words the catch block can look for
LibraryUnavailable == <<"YouTube", "downloader", "library", "is", "not", "available">>
BinaryUnavailable == <<"yt-dlp", "binary", "is", "not", "available">>
RequestTimeout == <<"Request", "timeout">>

\* what a rejected getInfoAsync may carry: the engine's own messages
EngineMessages == {<<"yt-dlp", "exited", "with", "code">>, <<"Video", "unavailable">>}

\* error.message.includes('yt-dlp')
Includes(message, word) == \E k \in DOMAIN message : message[k] = word

\* only the serverless video-info handlers call getYtDlp, race getInfoAsync
\* against a timer and tell a 503 from a 500
Guarded(dep, rt) == dep = "serverless" /\ rt = "video-info"

\* the status the catch block answers with
CatchStatus(dep, rt, message) ==
    IF Guarded(dep, rt) /\ Includes(message, "yt-dlp") THEN "503" ELSE "500"

Catch(r, message) ==
    [r EXCEPT !.pc = "done", !.resp = <<CatchStatus(deployment, route, message)>>]

\* ytdlp.getInfoAsync(url), raced against the 30 s timer where there is one
StartInfo(r) ==
    [r EXCEPT !.pc = "info", !.engine = "called",
              !.timer = IF Guarded(deployment, route) THEN "armed" ELSE "none"]

SetInfo(i, r) ==
    /\ vreq' = [vreq EXCEPT ![i] = r]
    /\ UNCHANGED <<deployment, downloadsDir, sweepPc, sweepFiles, req, route, accessor>>

\* a request arrives: the url checks, then getYtDlp up to its first await
\* (or its return, or its throw), then getInfoAsync
InfoRequest(i) ==
    /\ route # "download"
    /\ vreq[i].pc = "idle"
    /\ \A j \in DOMAIN vreq : j < i => vreq[j].pc # "idle"
    /\ \E url \in Urls, loads \in BOOLEAN :
         LET r == [vreq[i] EXCEPT !.url = url] IN
         IF ~UrlAccepted(url)
         THEN /\ SetInfo(i, [r EXCEPT !.pc = "done", !.resp = <<"400">>])
              /\ UNCHANGED lib
         ELSE IF ~Guarded(deployment, route)
         THEN /\ SetInfo(i, StartInfo(r))
              /\ UNCHANGED lib
         ELSE IF ~lib.YtDlp /\ ~loads
         THEN /\ SetInfo(i, Catch([r EXCEPT !.init = "library"], LibraryUnavailable))
              /\ UNCHANGED lib
         ELSE IF ~lib.ytdlp
         THEN /\ SetInfo(i, [r EXCEPT !.pc = "check",
                               !.timer = IF accessor = "lenient" THEN "armed" ELSE "none"])
              /\ lib' = [lib EXCEPT !.YtDlp = TRUE, !.ytdlp = TRUE]
         ELSE /\ SetInfo(i, StartInfo([r EXCEPT
                               !.init = IF lib.verified THEN "ok" ELSE "unchecked"]))
              /\ lib' = [lib EXCEPT !.YtDlp = TRUE]

\* checkInstallationAsync resolved
CheckResolve(i) ==
    /\ vreq[i].pc = "check"
    /\ SetInfo(i, StartInfo([vreq[i] EXCEPT !.init = "ok"]))
    /\ lib' = [lib EXCEPT !.verified = TRUE]

\* checkInstallationAsync rejected: one variant logs it and returns the
\* instance, the other tries to make the engine download its binary
CheckReject(i) ==
    /\ vreq[i].pc = "check"
    /\ IF accessor = "lenient"
       THEN SetInfo(i, StartInfo([vreq[i] EXCEPT !.init = "checkFailed"]))
       ELSE SetInfo(i, [vreq[i] EXCEPT !.pc = "binary"])
    /\ UNCHANGED lib

\* the 5 s 'Initialization timeout' wins the race: logged, instance returned
CheckTimeout(i) ==
    /\ vreq[i].pc = "check"
    /\ vreq[i].timer = "armed"
    /\ SetInfo(i, StartInfo([vreq[i] EXCEPT !.init = "checkTimeout"]))
    /\ UNCHANGED lib

\* the download-triggering getInfoAsync of getYtDlp resolved
BinaryResolve(i) ==
    /\ vreq[i].pc = "binary"
    /\ SetInfo(i, StartInfo([vreq[i] EXCEPT !.init = "downloaded"]))
    /\ lib' = [lib EXCEPT !.verified = TRUE]

\* it rejected: getYtDlp throws, and ytdlp keeps the instance it was given
BinaryReject(i) ==
    /\ vreq[i].pc = "binary"
    /\ SetInfo(i, Catch([vreq[i] EXCEPT !.init = "binary"], BinaryUnavailable))
    /\ UNCHANGED lib

\* getInfoAsync resolved: res.json(videoDetails) or res.json(availableFormats)
MetadataResolve(i) ==
    /\ vreq[i].pc = "info"
    /\ SetInfo(i, [vreq[i] EXCEPT !.pc = "done", !.resp = <<"200">>])
    /\ UNCHANGED lib

MetadataReject(i) ==
    /\ vreq[i].pc = "info"
    /\ \E message \in EngineMessages : SetInfo(i, Catch(vreq[i], message))
    /\ UNCHANGED lib

\* the 30 s timer wins the race
MetadataTimeout(i) ==
    /\ vreq[i].pc = "info"
    /\ vreq[i].timer = "armed"
    /\ SetInfo(i, Catch([vreq[i] EXCEPT !.timer = "fired"], RequestTimeout))
    /\ UNCHANGED lib

InfoNext ==
    \/ \E i \in DOMAIN vreq : InfoRequest(i)
    \/ \E i \in DOMAIN vreq : CheckResolve(i)
    \/ \E i \in DOMAIN vreq : CheckReject(i)
    \/ \E i \in DOMAIN vreq : CheckTimeout(i)
    \/ \E i \in DOMAIN vreq : BinaryResolve(i)
    \/ \E i \in DOMAIN vreq : BinaryReject(i)
    \/ \E i \in DOMAIN vreq : MetadataResolve(i)
    \/ \E i \in DOMAIN vreq : MetadataReject(i)
    \/ \E i \in DOMAIN vreq : MetadataTimeout(i)

\* the download route: its handlers, the clock and the sweep timer
DownloadNext ==
    \/ Handlers
    \/ Tick
    \/ SweepList
    \/ SweepRest

Next ==
    \/ DownloadNext
    \/ InfoNext

\* the requests of one route: one download session with the clock and the
\* sweep timer, or MaxInfoRequests video-info / formats requests
Spec == Init /\ [][Next]_vars

\* the timer and time keep going; a started sweep pass runs to its end
FairSpec == Spec /\ WF_vars(Tick) /\ WF_vars(SweepList) /\ WF_vars(SweepRest)

\* MaxSessions download sessions in flight within one sweep interval
ConcurrentSpec == InitConcurrent /\ [][Handlers]_vars

\* ------------------------------------------------------------ properties
Exts == {"mp4", "m4a", "opus", "webm", "ogg", "part"}

AllFiles ==
    {FragFile(s) : s \in Sessions}
      \cup {[frag |-> FALSE, of |-> 0, time |-> tm, tok |-> tok, ext |-> e] :
              tm \in Stamps, tok \in Tokens, e \in Exts}

Exists(d, f) == f \in DOMAIN d

\* the step in which the response stream of s ends
EndStep(s) == req[s].fileStream = "open" /\ req'[s].fileStream = "ended"

ErrorStep(s) == req[s].fileStream \in {"opening", "open"} /\ req'[s].fileStream = "errored"

CloseWhileStreamingStep(s) == req[s].closedAt = "none" /\ req'[s].closedAt = "streaming"

CloseStep(s) == req[s].closedAt = "none" /\ req'[s].closedAt # "none"

\* the step that completes one sweep pass
SweepPassStep == sweepPc = "iter" /\ sweepPc' = "idle"

\* still downloading or still streaming
Active(r) == r.pc \in {"downloading", "streaming"}

\* the entries the engine wrote at the allocated stem of r, and the
\* fragment file it is writing for s
OwnFiles(d, s) ==
    {f \in DOMAIN d : ~f.frag /\ Stem(f) = Stem(req[s].tempFileName)}
      \cup (IF req[s].ytdlp = "running" THEN {FragFile(s)} \cap DOMAIN d ELSE {})

\* C1: in both deployments, once the response stream of an accepted download
\* has ended by 'end', by 'error' or by the client's disconnect, neither the
\* allocated temp path nor the actual path exists after that step.
C1_ArtifactGoneAfterStreamEnds ==
    [][\A s \in DOMAIN req :
         (EndStep(s) \/ ErrorStep(s) \/ CloseWhileStreamingStep(s))
           => /\ ~Exists(downloadsDir', req'[s].tempFileName)
              /\ ~Exists(downloadsDir', req'[s].actualFilePath)]_vars

\* C2: on the server every entry of the scratch directory is eventually
\* removed, whatever path its download took, given that time advances and
\* the sweep timer keeps firing.
C2_EveryArtifactEventuallyRemoved ==
    \A f \in AllFiles :
      (deployment = "server" /\ Exists(downloadsDir, f)) ~> ~Exists(downloadsDir, f)

\* a failed download has left its partial file behind and nothing but the
\* sweep is left to remove it
C2_Witness ==
    \E s \in DOMAIN req :
      /\ deployment = "server"
      /\ req[s].pc = "done"
      /\ req[s].ytdlp = "failed"
      /\ Exists(downloadsDir, WithExt(req[s].tempFileName, "part"))
      /\ downloadsDir[WithExt(req[s].tempFileName, "part")] > RetentionMs

\* C3: the cleanup that the 'end' or the 'close' handler of one session runs
\* never deletes a file of another session with a different stem that is
\* still downloading or streaming.
C3_CleanupTouchesOwnFilesOnly ==
    [][\A s \in DOMAIN req, u \in DOMAIN req :
         /\ s # u
         /\ EndStep(s) \/ CloseStep(s)
         /\ Active(req[u])
         /\ Stem(req[s].tempFileName) # Stem(req[u].tempFileName)
         => \A f \in OwnFiles(downloadsDir, u) : Exists(downloadsDir', f)]_vars

\* C4: a sweep pass never deletes a file of a session that is still
\* downloading or still streaming.
C4_SweepSparesActiveSessions ==
    [][SweepPassStep =>
         \A u \in DOMAIN req :
           Active(req[u]) => \A f \in OwnFiles(downloadsDir, u) : Exists(downloadsDir', f)]_vars

\* C5: a failure on one entry does not stop the pass: every listed entry
\* that is still there and qualifies is removed by the pass.
C5_SweepPassReachesEveryEntry ==
    [][SweepPassStep =>
         \A f \in sweepFiles \cap DOMAIN downloadsDir :
           SweepQualifies(f, downloadsDir[f]) => ~Exists(downloadsDir', f)]_vars

\* C6: a sweep pass removes exactly the listed entries that carry the
\* fragment marker or are older than the retention threshold, and leaves
\* every other entry as it was.
C6_SweepRemovesExactlyQualifying ==
    [][SweepPassStep =>
         downloadsDir' =
           Remove(downloadsDir,
                  {f \in sweepFiles \cap DOMAIN downloadsDir :
                     SweepQualifies(f, downloadsDir[f])})]_vars

\* C7: in both deployments, when the client closes the connection while the
\* artifact is being streamed, the read stream is destroyed, the artifact and
\* every entry with the session's prefix or the fragment marker are removed in
\* that step, and no error response is written.
C7_DisconnectDestroysAndCleans ==
    [][\A s \in DOMAIN req :
         CloseWhileStreamingStep(s)
           => /\ req'[s].fileStream = "destroyed"
              /\ ~Exists(downloadsDir', req[s].actualFilePath)
              /\ \A f \in DOMAIN downloadsDir' : ~CleanupMatches(f, req[s].tempFileName)
              /\ req'[s].resp = req[s].resp]_vars

\* C8: whenever the connection of a session is closed, its engine download
\* is not running and no read stream on its artifact is open.
C8_SessionNeverOutlivesResponse ==
    \A s \in DOMAIN req :
      req[s].closedAt # "none"
        => /\ req[s].ytdlp # "running"
           /\ req[s].fileStream \notin {"opening", "open"}

\* C9: on a failure of the download handler an error response is written if
\* and only if the headers were not yet sent, and no request gets more than
\* one response.
C9_ErrorResponseIffHeadersUnsent ==
    \A s \in DOMAIN req :
      /\ Len(req[s].resp) <= 1
      /\ req[s].failure = "early" => req[s].resp = <<"500">>
      /\ req[s].failure = "late" => req[s].resp = <<"media">>

\* a read error after the first chunk was piped: headers sent, no error body
C9_Witness ==
    \E s \in DOMAIN req :
      /\ req[s].failure = "late"
      /\ req[s].fileStream = "errored"
      /\ req[s].headersSent

\* C10: for every requested format other than "mp3" (absent, "mp4" or any
\* other string) the selector is 'best[ext=mp4]/best', the Content-Type is
\* video/mp4, the temp extension is mp4 and the extension of the download
\* filename is "mp4"; so absent and "mp4" give identical results.
C10_NonMp3ResolvesToMp4 ==
    \A s \in DOMAIN req :
      (req[s].pc \in {"downloading", "streaming", "finished"}
         /\ Format(req[s].query) # "mp3")
        => /\ req[s].selector = "best[ext=mp4]/best"
           /\ req[s].contentType = "video/mp4"
           /\ req[s].tempFileName.ext = "mp4"
           /\ req[s].fileName.ext = "mp4"

\* C11: for a download with format "mp3", whichever container the engine
\* wrote, the response that carries the media has Content-Type audio/mpeg
\* and the download filename "<derived video title>.mp3", and the streamed
\* artifact is gone once the stream has ended.
C11_Mp3NamedAfterTitle ==
    \A s \in DOMAIN req :
      (Format(req[s].query) = "mp3" /\ req[s].resp = <<"media">>)
        => /\ req[s].contentType = "audio/mpeg"
           /\ req[s].fileName = InitialFileName("mp3")
           /\ req[s].fileStream = "ended" => ~Exists(downloadsDir, req[s].actualFilePath)

\* the url is missing or fails the shape check
Rejectable(url) == url = MissingUrl \/ ~validateYouTubeURL(url)

\* C12: on every route that takes a url, a request whose url is missing or
\* fails the shape check is answered with 400, neither getYtDlp nor
\* getInfoAsync nor downloadAsync is called for it, and it creates no entry
\* in the scratch directory.
C12_BadUrlRejectedBeforeEngine ==
    /\ \A s \in DOMAIN req :
         (req[s].pc # "idle" /\ Rejectable(req[s].url))
           => /\ req[s].pc = "done"
              /\ req[s].resp = <<"400">>
              /\ req[s].ytdlp = "idle"
              /\ req[s].tempFileName = NoFile
              /\ downloadsDir = EmptyDir
    /\ \A i \in DOMAIN vreq :
         (vreq[i].pc # "idle" /\ Rejectable(vreq[i].url))
           => /\ vreq[i].pc = "done"
              /\ vreq[i].resp = <<"400">>
              /\ vreq[i].init = "none"
              /\ vreq[i].engine = "idle"
              /\ downloadsDir = EmptyDir

\* a url of the wrong shape was rejected while an earlier request of the
\* same route went on to the engine
C12_Witness ==
    \E i \in DOMAIN vreq, j \in DOMAIN vreq :
      /\ vreq[i].url # MissingUrl
      /\ ~validateYouTubeURL(vreq[i].url)
      /\ vreq[i].resp = <<"400">>
      /\ vreq[j].engine = "called"

\* the engine reported success but the lookup found no file with the
\* session's prefix and an accepted audio extension
OutputMissing(r) ==
    /\ Format(r.query) = "mp3"
    /\ r.pc \in {"streaming", "finished"}
    /\ r.actualFilePath = r.tempFileName
    /\ r.fileName = InitialFileName("mp3")

\* C13: when the engine reports success for an mp3 download but wrote no
\* file with the session's prefix and an accepted audio extension, the
\* request is answered with 500 and no media, and once the session is over
\* (stream failed, connection closed) no entry at the allocated path or
\* under the session's prefix is left.
C13_MissingOutputFailsAndCleans ==
    \A s \in DOMAIN req :
      (OutputMissing(req[s]) /\ req[s].fileStream = "errored")
        => /\ req[s].resp = <<"500">>
           /\ req[s].closedAt # "none"
                => \A f \in DOMAIN downloadsDir :
                     ~StartsWithStem(f, Stem(req[s].tempFileName))

\* the 'close' listener runs the cleanup that 'end' has already run
CloseAfterEndStep(s) ==
    /\ HasCloseListener(deployment)
    /\ req[s].fileStream = "ended"
    /\ CloseStep(s)

\* 'end' runs the cleanup on an artifact that a sweep pass already removed
EndAfterSweepStep(s) == EndStep(s) /\ ~Exists(downloadsDir, req[s].actualFilePath)

\* C14: when the cleanup of a session runs again ('close' after 'end'), or
\* runs on an artifact the sweep already removed, that run raises no error
\* and writes no error response; the second run leaves the scratch directory
\* as the first one left it, and running the cleanup once more on its result
\* changes nothing.
C14_CleanupIdempotent ==
    [][\A s \in DOMAIN req :
         /\ CloseAfterEndStep(s)
              => /\ req'[s].failure = req[s].failure
                 /\ req'[s].resp = req[s].resp
                 /\ downloadsDir' = downloadsDir
         /\ EndAfterSweepStep(s)
              => /\ req'[s].failure = req[s].failure
                 /\ req'[s].resp # <<"500">>
         /\ (EndStep(s) \/ CloseAfterEndStep(s))
              => SessionCleanup(downloadsDir', req'[s]) = downloadsDir']_vars

\* 'end' and then 'close' have both run the cleanup of one session
C14_Witness ==
    \E s \in DOMAIN req :
      /\ HasCloseListener(deployment)
      /\ req[s].fileStream = "ended"
      /\ req[s].closedAt = "finished"
      /\ req[s].resp = <<"media">>

\* C15: whenever getYtDlp fails to initialise the engine for a serverless
\* video-info request (the library does not load, the installation check
\* fails or times out, or the binary cannot be downloaded), the request is
\* answered with 503, not with 500 and not with metadata.
C15_InitFailureAnswered503 ==
    \A i \in DOMAIN vreq :
      (vreq[i].pc = "done"
         /\ vreq[i].init \in {"library", "checkFailed", "checkTimeout", "binary"})
        => vreq[i].resp = <<"503">>

\* C16: every request that is waiting for getInfoAsync has a timer armed
\* that ends the wait with a timeout error if the engine never answers.
C16_MetadataFetchBounded ==
    /\ \A i \in DOMAIN vreq : vreq[i].pc = "info" => vreq[i].timer = "armed"
    /\ \A s \in DOMAIN req : req[s].pc = "info" => DownloadInfoTimer(req[s]) = "armed"

\* C17: the temp paths allocated by different sessions are pairwise
\* distinct, also when they are allocated in the same millisecond.
C17_AllocatedPathsDistinct ==
    \A s \in DOMAIN req, u \in DOMAIN req :
      (s # u /\ req[s].tempFileName # NoFile /\ req[u].tempFileName # NoFile)
        => req[s].tempFileName # req[u].tempFileName

\* C18: within one session a read stream exists and media is written only
\* after downloadAsync has resolved, and after downloadAsync has rejected no
\* read stream is ever opened.
C18_StreamOnlyAfterDownload ==
    \A s \in DOMAIN req :
      /\ req[s].fileStream # "none" => req[s].ytdlp = "ok"
      /\ req[s].resp = <<"media">> => req[s].ytdlp = "ok"
      /\ req[s].ytdlp = "failed" => req[s].fileStream = "none"

\* media is on its way from a finished download
C18_Witness ==
    \E s \in DOMAIN req :
      /\ req[s].ytdlp = "ok"
      /\ req[s].fileStream = "open"
      /\ req[s].resp = <<"media">>

\* C19: the getYtDlp that throws on a failed initialisation hands an engine
\* instance to a request only if an installation check or a binary download
\* has succeeded before; after a failed initialisation the next call checks
\* again or fails again.
C19_InstanceOnlyAfterCheck ==
    accessor = "strict"
      => \A i \in DOMAIN vreq : vreq[i].engine = "called" => lib.verified
====
